---- MODULE Spec2Model ----
(***************************************************************************)
(* Model of the in-memory deck / flashcard repository of notebook-vision   *)
(* (backend/ocr_utils.py) as it is driven by the HTTP handlers of          *)
(* backend/main.py, and of the question / answer scanner                   *)
(* FlashcardExtractor (backend/test_flashcard_logic.py).                   *)
(*                                                                         *)
(* Python strings are sequences of one-character strings, so that strip(), *)
(* lower() and the substring test are computed and not assumed.  None is a *)
(* distinguished value that no payload string equals.                      *)
(***************************************************************************)
EXTENDS Integers, Sequences, FiniteSets, TLC

VARIABLES DECKS, FLASHCARDS, clock, nextId, resp, running,
          lines, i, flashcards, image_data, result

\* the module-level stores of ocr_utils and the handler the event loop runs
stores == <<DECKS, FLASHCARDS, clock, nextId, resp, running>>
\* the locals of a call of FlashcardExtractor.extract_flashcards
scanner == <<lines, i, flashcards>>

\* the argument of a call of OCRProcessor.process_image in flight, and what
\* the last call returned
ocr == <<image_data, result>>

vars == <<stores, scanner, ocr>>

(***************************************************************************)
(* Bounds of the model.                                                    *)
(***************************************************************************)
\* flashcards the add requests of a request mix create
MaxCards == 2
\* flashcards the add requests create when every handler is in the mix
MaxCardsAll == 1
\* largest value the wall clock reaches
MaxClock == 1
\* decks the create requests create
MaxCreates == 2
\* longest assessment history the assessment requests build
MaxHist == 2
\* lines of the longest text of question / answer pairs
MaxPairLines == 4
\* lines of the longest text of question / answer blocks
MaxBlockLines == 5
\* lines of the longest text without a question
MaxPlainLines == 4
\* lines that follow the leading question of the longest answer-window text
MaxWindowLines == 8
\* lines that OCR reads from an image
MaxOcrLines == 3
\* lines of a text of SpecMarkers
MaxMarkerLines == 5
\* lines after the first of a text of SpecAnswer
MaxAnswerLines == 6

(***************************************************************************)
(* Python values.                                                          *)
(***************************************************************************)
None == <<"<None>">>
EmptyStr == <<>>
DefaultName == <<"D", "e", "f", "a", "u", "l", "t">>

\* bool(v) of a str-or-None value
Truthy(v) == v # None /\ v # EmptyStr

Whitespace == {" ", "\t", "\n", "\r"}

RECURSIVE lstrip(_)
lstrip(s) ==
    IF s # <<>> /\ Head(s) \in Whitespace THEN lstrip(Tail(s)) ELSE s

RECURSIVE rstrip(_)
rstrip(s) ==
    IF s # <<>> /\ s[Len(s)] \in Whitespace
    THEN rstrip(SubSeq(s, 1, Len(s) - 1))
    ELSE s

\* str.strip()
strip(s) == rstrip(lstrip(s))

UpperAlpha == <<"A", "B", "C", "D", "E", "F", "G", "H", "I", "J", "K", "L", "M",
                "N", "O", "P", "Q", "R", "S", "T", "U", "V", "W", "X", "Y", "Z">>
LowerAlpha == <<"a", "b", "c", "d", "e", "f", "g", "h", "i", "j", "k", "l", "m",
                "n", "o", "p", "q", "r", "s", "t", "u", "v", "w", "x", "y", "z">>

LowerChar(c) ==
    IF \E k \in DOMAIN UpperAlpha : UpperAlpha[k] = c
    THEN LowerAlpha[CHOOSE k \in DOMAIN UpperAlpha : UpperAlpha[k] = c]
    ELSE c

\* str.lower()
lower(s) == [k \in DOMAIN s |-> LowerChar(s[k])]

\* sub in s, for two str
StrIn(sub, s) ==
    \E k \in 0..(Len(s) - Len(sub)) : SubSeq(s, k + 1, k + Len(sub)) = sub

\* x in xs, for a list xs
ListIn(x, xs) == \E k \in DOMAIN xs : xs[k] = x

\* xs.remove(x): drops the first occurrence of x
ListRemove(xs, x) ==
    LET k == CHOOSE p \in DOMAIN xs :
                xs[p] = x /\ \A j \in 1..(p - 1) : xs[j] # x
    IN  SubSeq(xs, 1, k - 1) \o SubSeq(xs, k + 1, Len(xs))

(***************************************************************************)
(* Data model.                                                             *)
(***************************************************************************)
\* Deck.__init__
Deck(id, name, now) ==
    [id |-> id, name |-> name, created_at |-> now, updated_at |-> now]

\* Flashcard.__init__
Flashcard(id, question, answer, deck, tags, now) ==
    [id |-> id,
     question |-> question,
     answer |-> answer,
     deck |-> IF Truthy(deck) THEN deck ELSE DefaultName,
     tags |-> IF tags # <<>> THEN tags ELSE <<>>,
     created_at |-> now,
     updated_at |-> now,
     assessment |-> [current |-> None, history |-> <<>>]]

\* Flashcard.to_dict
to_dict(fc) == fc

\* FLASHCARDS.get(fc_id): the position of the card, 0 when the id is unknown
CardIndex(F, fc_id) ==
    IF \E k \in DOMAIN F : F[k].id = fc_id
    THEN CHOOSE k \in DOMAIN F : F[k].id = fc_id
    ELSE 0

(***************************************************************************)
(* Deck CRUD.  Each operator returns the value the function returns        *)
(* together with the stores as the call leaves them.                       *)
(***************************************************************************)
create_deck(D, name, id, now) ==
    IF name \in DOMAIN D
    THEN [ret |-> FALSE, DECKS |-> D]
    ELSE [ret |-> TRUE,
          DECKS |-> [k \in DOMAIN D \cup {name} |->
                        IF k = name THEN Deck(id, name, now) ELSE D[k]]]

\* rename_deck without the loop that moves the flashcards
rename_deck_keeps_refs(D, F, old_name, new_name, now) ==
    IF old_name \notin DOMAIN D \/ new_name \in DOMAIN D
    THEN [ret |-> FALSE, DECKS |-> D, FLASHCARDS |-> F]
    ELSE [ret |-> TRUE,
          DECKS |-> [k \in (DOMAIN D \ {old_name}) \cup {new_name} |->
                        IF k = new_name
                        THEN [D[old_name] EXCEPT !.name = new_name,
                                                 !.updated_at = now]
                        ELSE D[k]],
          FLASHCARDS |-> F]

\* rename_deck that takes a rename onto the deck's own name for no conflict
rename_deck_self_ok(D, F, old_name, new_name, now) ==
    IF old_name \notin DOMAIN D \/ (new_name \in DOMAIN D /\ new_name # old_name)
    THEN [ret |-> FALSE, DECKS |-> D, FLASHCARDS |-> F]
    ELSE [ret |-> TRUE,
          DECKS |-> [k \in (DOMAIN D \ {old_name}) \cup {new_name} |->
                        IF k = new_name
                        THEN [D[old_name] EXCEPT !.name = new_name,
                                                 !.updated_at = now]
                        ELSE D[k]],
          FLASHCARDS |-> [k \in DOMAIN F |->
                        IF F[k].deck = old_name
                        THEN [F[k] EXCEPT !.deck = new_name]
                        ELSE F[k]]]

\* rename_deck without the assignment to the name field of the moved deck
rename_deck_keeps_name(D, F, old_name, new_name, now) ==
    IF old_name \notin DOMAIN D \/ new_name \in DOMAIN D
    THEN [ret |-> FALSE, DECKS |-> D, FLASHCARDS |-> F]
    ELSE [ret |-> TRUE,
          DECKS |-> [k \in (DOMAIN D \ {old_name}) \cup {new_name} |->
                        IF k = new_name
                        THEN [D[old_name] EXCEPT !.updated_at = now]
                        ELSE D[k]],
          FLASHCARDS |-> [k \in DOMAIN F |->
                        IF F[k].deck = old_name
                        THEN [F[k] EXCEPT !.deck = new_name]
                        ELSE F[k]]]

\* rename_deck that first clears the new name of the flashcards that
\* reference it already, moving them to "Default"
rename_deck_evicts(D, F, old_name, new_name, now) ==
    IF old_name \notin DOMAIN D \/ new_name \in DOMAIN D
    THEN [ret |-> FALSE, DECKS |-> D, FLASHCARDS |-> F]
    ELSE [ret |-> TRUE,
          DECKS |-> [k \in (DOMAIN D \ {old_name}) \cup {new_name} |->
                        IF k = new_name
                        THEN [D[old_name] EXCEPT !.name = new_name,
                                                 !.updated_at = now]
                        ELSE D[k]],
          FLASHCARDS |-> [k \in DOMAIN F |->
                        IF F[k].deck = old_name
                        THEN [F[k] EXCEPT !.deck = new_name]
                        ELSE IF F[k].deck = new_name
                        THEN [F[k] EXCEPT !.deck = DefaultName]
                        ELSE F[k]]]

\* rename_deck that moves every flashcard to the new name
rename_deck_moves_all(D, F, old_name, new_name, now) ==
    IF old_name \notin DOMAIN D \/ new_name \in DOMAIN D
    THEN [ret |-> FALSE, DECKS |-> D, FLASHCARDS |-> F]
    ELSE [ret |-> TRUE,
          DECKS |-> [k \in (DOMAIN D \ {old_name}) \cup {new_name} |->
                        IF k = new_name
                        THEN [D[old_name] EXCEPT !.name = new_name,
                                                 !.updated_at = now]
                        ELSE D[k]],
          FLASHCARDS |->
              [k \in DOMAIN F |-> [F[k] EXCEPT !.deck = new_name]]]

rename_deck(D, F, old_name, new_name, now) ==
    IF old_name \notin DOMAIN D \/ new_name \in DOMAIN D
    THEN [ret |-> FALSE, DECKS |-> D, FLASHCARDS |-> F]
    ELSE [ret |-> TRUE,
          DECKS |-> [k \in (DOMAIN D \ {old_name}) \cup {new_name} |->
                        IF k = new_name
                        THEN [D[old_name] EXCEPT !.name = new_name,
                                                 !.updated_at = now]
                        ELSE D[k]],
          FLASHCARDS |-> [k \in DOMAIN F |->
                        IF F[k].deck = old_name
                        THEN [F[k] EXCEPT !.deck = new_name]
                        ELSE F[k]]]

\* delete_deck that moves only the first flashcard of the deck
delete_deck_moves_first(D, F, name) ==
    IF name = DefaultName \/ name \notin DOMAIN D
    THEN [ret |-> FALSE, DECKS |-> D, FLASHCARDS |-> F]
    ELSE [ret |-> TRUE,
          DECKS |-> [k \in DOMAIN D \ {name} |-> D[k]],
          FLASHCARDS |-> [k \in DOMAIN F |->
                        IF F[k].deck = name
                           /\ \A j \in 1..(k - 1) : F[j].deck # name
                        THEN [F[k] EXCEPT !.deck = DefaultName]
                        ELSE F[k]]]

\* delete_deck that drops the flashcards of the deck with the deck
delete_deck_drops_cards(D, F, name) ==
    IF name = DefaultName \/ name \notin DOMAIN D
    THEN [ret |-> FALSE, DECKS |-> D, FLASHCARDS |-> F]
    ELSE [ret |-> TRUE,
          DECKS |-> [k \in DOMAIN D \ {name} |-> D[k]],
          FLASHCARDS |-> SelectSeq(F, LAMBDA fc : fc.deck # name)]

delete_deck(D, F, name) ==
    IF name = DefaultName \/ name \notin DOMAIN D
    THEN [ret |-> FALSE, DECKS |-> D, FLASHCARDS |-> F]
    ELSE [ret |-> TRUE,
          DECKS |-> [k \in DOMAIN D \ {name} |-> D[k]],
          FLASHCARDS |-> [k \in DOMAIN F |->
                        IF F[k].deck = name
                        THEN [F[k] EXCEPT !.deck = DefaultName]
                        ELSE F[k]]]

(***************************************************************************)
(* Flashcard CRUD, tags, assessment.                                       *)
(***************************************************************************)
add_flashcard(F, id, question, answer, deck, tags, now) ==
    [ret |-> Flashcard(id, question, answer, deck, tags, now),
     FLASHCARDS |-> Append(F, Flashcard(id, question, answer, deck, tags, now))]

\* tag_flashcard that stamps updated_at before it looks at the tags
tag_flashcard_stamps_first(F, fc_id, tag, now) ==
    LET k == CardIndex(F, fc_id)
    IN  IF k # 0 /\ ~ListIn(tag, F[k].tags)
        THEN [ret |-> TRUE,
              FLASHCARDS |-> [F EXCEPT ![k].tags = Append(@, tag),
                                       ![k].updated_at = now]]
        ELSE IF k # 0
        THEN [ret |-> FALSE, FLASHCARDS |-> [F EXCEPT ![k].updated_at = now]]
        ELSE [ret |-> FALSE, FLASHCARDS |-> F]

\* tag_flashcard without the membership test
tag_flashcard_no_test(F, fc_id, tag, now) ==
    LET k == CardIndex(F, fc_id)
    IN  IF k # 0
        THEN [ret |-> TRUE,
              FLASHCARDS |-> [F EXCEPT ![k].tags = Append(@, tag),
                                       ![k].updated_at = now]]
        ELSE [ret |-> FALSE, FLASHCARDS |-> F]

tag_flashcard(F, fc_id, tag, now) ==
    LET k == CardIndex(F, fc_id)
    IN  IF k # 0 /\ ~ListIn(tag, F[k].tags)
        THEN [ret |-> TRUE,
              FLASHCARDS |-> [F EXCEPT ![k].tags = Append(@, tag),
                                       ![k].updated_at = now]]
        ELSE [ret |-> FALSE, FLASHCARDS |-> F]

untag_flashcard(F, fc_id, tag, now) ==
    LET k == CardIndex(F, fc_id)
    IN  IF k # 0 /\ ListIn(tag, F[k].tags)
        THEN [ret |-> TRUE,
              FLASHCARDS |-> [F EXCEPT ![k].tags = ListRemove(@, tag),
                                       ![k].updated_at = now]]
        ELSE [ret |-> FALSE, FLASHCARDS |-> F]

\* update_assessment that overwrites the history with the new entry
update_assessment_overwrites(F, fc_id, score, now) ==
    LET k == CardIndex(F, fc_id)
    IN  IF k # 0
        THEN [ret |-> TRUE,
              FLASHCARDS |->
                 [F EXCEPT ![k].assessment.current = score,
                           ![k].assessment.history =
                               <<[timestamp |-> now, score |-> score]>>,
                           ![k].updated_at = now]]
        ELSE [ret |-> FALSE, FLASHCARDS |-> F]

update_assessment(F, fc_id, score, now) ==
    LET k == CardIndex(F, fc_id)
    IN  IF k # 0
        THEN [ret |-> TRUE,
              FLASHCARDS |->
                 [F EXCEPT ![k].assessment.current = score,
                           ![k].assessment.history =
                               Append(@, [timestamp |-> now, score |-> score]),
                           ![k].updated_at = now]]
        ELSE [ret |-> FALSE, FLASHCARDS |-> F]

\* search_flashcards whose assessment filter accepts any recorded score
search_flashcards_any_score(F, query, deck, tag, assessment) ==
    LET r0 == F
        QueryOk(fc) == \/ StrIn(lower(query), lower(fc.question))
                       \/ StrIn(lower(query), lower(fc.answer))
        DeckOk(fc) == fc.deck = deck
        TagOk(fc) == ListIn(tag, fc.tags)
        AssessmentOk(fc) ==
            \E j \in DOMAIN fc.assessment.history :
                fc.assessment.history[j].score = assessment
        r1 == IF Truthy(query) THEN SelectSeq(r0, QueryOk) ELSE r0
        r2 == IF Truthy(deck) THEN SelectSeq(r1, DeckOk) ELSE r1
        r3 == IF Truthy(tag) THEN SelectSeq(r2, TagOk) ELSE r2
        r4 == IF Truthy(assessment) THEN SelectSeq(r3, AssessmentOk) ELSE r3
    IN  [k \in DOMAIN r4 |-> to_dict(r4[k])]

search_flashcards(F, query, deck, tag, assessment) ==
    LET r0 == F
        QueryOk(fc) == \/ StrIn(lower(query), lower(fc.question))
                       \/ StrIn(lower(query), lower(fc.answer))
        DeckOk(fc) == fc.deck = deck
        TagOk(fc) == ListIn(tag, fc.tags)
        AssessmentOk(fc) == fc.assessment.current = assessment
        r1 == IF Truthy(query) THEN SelectSeq(r0, QueryOk) ELSE r0
        r2 == IF Truthy(deck) THEN SelectSeq(r1, DeckOk) ELSE r1
        r3 == IF Truthy(tag) THEN SelectSeq(r2, TagOk) ELSE r2
        r4 == IF Truthy(assessment) THEN SelectSeq(r3, AssessmentOk) ELSE r3
    IN  [k \in DOMAIN r4 |-> to_dict(r4[k])]

(***************************************************************************)
(* Request handlers.  resp is the response of the last request: the        *)
(* handler, the HTTP status, the detail of a failure, and in n the number  *)
(* of flashcards the request rewrote (rename, delete) or returned (search).*)
(***************************************************************************)
Response(op, status, detail, n) ==
    [op |-> op, status |-> status, detail |-> detail, n |-> n]

\* number of flashcards whose deck field is name
CountDeck(F, name) == Cardinality({k \in DOMAIN F : F[k].deck = name})

api_create_deck(payload_name) ==
    LET name == strip(payload_name)
        r == create_deck(DECKS, name, nextId, clock)
    IN  /\ IF ~Truthy(name)
           THEN /\ resp' = Response("create", 400, "Deck name required.", 0)
                /\ UNCHANGED <<DECKS, nextId>>
           ELSE /\ DECKS' = r.DECKS
                /\ nextId' = IF r.ret THEN nextId + 1 ELSE nextId
                /\ resp' = IF r.ret
                           THEN Response("create", 200, "", 0)
                           ELSE Response("create", 400, "Deck already exists.", 0)
        /\ UNCHANGED <<FLASHCARDS, clock, running, scanner, ocr>>

api_rename_deck(old_name, payload_name) ==
    LET new_name == strip(payload_name)
        r == rename_deck(DECKS, FLASHCARDS, old_name, new_name, clock)
    IN  /\ IF ~Truthy(new_name)
           THEN /\ resp' = Response("rename", 400, "New deck name required.", 0)
                /\ UNCHANGED <<DECKS, FLASHCARDS>>
           ELSE /\ DECKS' = r.DECKS
                /\ FLASHCARDS' = r.FLASHCARDS
                /\ resp' = IF r.ret
                           THEN Response("rename", 200, "",
                                         CountDeck(FLASHCARDS, old_name))
                           ELSE Response("rename", 400, "Rename failed.", 0)
        /\ UNCHANGED <<clock, nextId, running, scanner, ocr>>

api_delete_deck(name) ==
    LET r == delete_deck(DECKS, FLASHCARDS, name)
    IN  /\ DECKS' = r.DECKS
        /\ FLASHCARDS' = r.FLASHCARDS
        /\ resp' = IF r.ret
                   THEN Response("delete", 200, "", CountDeck(FLASHCARDS, name))
                   ELSE Response("delete", 400,
                            "Delete failed or cannot delete Default deck.", 0)
        /\ UNCHANGED <<clock, nextId, running, scanner, ocr>>

api_add_flashcard(payload_question, payload_answer, deck, tags) ==
    LET q == strip(payload_question)
        a == strip(payload_answer)
        r == add_flashcard(FLASHCARDS, Len(FLASHCARDS) + 1, q, a, deck, tags,
                           clock)
    IN  /\ IF ~Truthy(q) \/ ~Truthy(a)
           THEN /\ resp' = Response("add", 400,
                                    "Question and answer required.", 0)
                /\ UNCHANGED FLASHCARDS
           ELSE /\ FLASHCARDS' = r.FLASHCARDS
                /\ resp' = Response("add", 200, "", 0)
        /\ UNCHANGED <<DECKS, clock, nextId, running, scanner, ocr>>

api_tag_flashcard(fc_id, payload_tag) ==
    LET tag == strip(payload_tag)
        r == tag_flashcard(FLASHCARDS, fc_id, tag, clock)
    IN  /\ IF ~Truthy(tag)
           THEN /\ resp' = Response("tag", 400, "Tag required.", 0)
                /\ UNCHANGED FLASHCARDS
           ELSE /\ FLASHCARDS' = r.FLASHCARDS
                /\ resp' = IF r.ret
                           THEN Response("tag", 200, "", 0)
                           ELSE Response("tag", 404,
                                    "Flashcard not found or already tagged.", 0)
        /\ UNCHANGED <<DECKS, clock, nextId, running, scanner, ocr>>

api_untag_flashcard(fc_id, payload_tag) ==
    LET tag == strip(payload_tag)
        r == untag_flashcard(FLASHCARDS, fc_id, tag, clock)
    IN  /\ IF ~Truthy(tag)
           THEN /\ resp' = Response("untag", 400, "Tag required.", 0)
                /\ UNCHANGED FLASHCARDS
           ELSE /\ FLASHCARDS' = r.FLASHCARDS
                /\ resp' = IF r.ret
                           THEN Response("untag", 200, "", 0)
                           ELSE Response("untag", 404,
                                    "Flashcard not found or tag missing.", 0)
        /\ UNCHANGED <<DECKS, clock, nextId, running, scanner, ocr>>

api_update_assessment(fc_id, payload_score) ==
    LET score == strip(payload_score)
        r == update_assessment(FLASHCARDS, fc_id, score, clock)
    IN  /\ IF ~Truthy(score)
           THEN /\ resp' = Response("assessment", 400, "Score required.", 0)
                /\ UNCHANGED FLASHCARDS
           ELSE /\ FLASHCARDS' = r.FLASHCARDS
                /\ resp' = IF r.ret
                           THEN Response("assessment", 200, "", 0)
                           ELSE Response("assessment", 404,
                                         "Flashcard not found.", 0)
        /\ UNCHANGED <<DECKS, clock, nextId, running, scanner, ocr>>

api_search_flashcards(query, deck, tag, assessment) ==
    /\ resp' = Response("search", 200, "",
                  Len(search_flashcards(FLASHCARDS, query, deck, tag,
                                        assessment)))
    /\ UNCHANGED <<DECKS, FLASHCARDS, clock, nextId, running, scanner, ocr>>

(***************************************************************************)
(* The event loop.  Every handler is an `async def` that calls its store   *)
(* function without an await, so the loop takes the next request only when *)
(* no handler is between two of its lines.  running is the store call the  *)
(* loop is inside and the line it has reached: i = 0 before the name of    *)
(* the re-filed deck is assigned, i = k before the k-th flashcard is       *)
(* examined; n counts the flashcards rewritten.  rename_deck_enter and     *)
(* rename_deck_line (delete_deck_enter and delete_deck_line) are the call  *)
(* rename_deck (delete_deck) taken one statement at a time.                *)
(***************************************************************************)
Idle ==
    [op |-> "idle", old_name |-> EmptyStr, new_name |-> EmptyStr,
     i |-> 0, n |-> 0]

\* an event loop that hands over to another request between any two lines
LoopYieldsBetweenLines == TRUE

\* the event loop takes the next request: no handler is between two lines
LoopTakesRequest == running = Idle

\* PUT /api/decks/{old_name}: the handler up to the re-filing of the deck
rename_deck_enter(old_name, payload_name) ==
    LET new_name == strip(payload_name)
    IN  /\ LoopTakesRequest
        /\ IF ~Truthy(new_name)
           THEN /\ resp' = Response("rename", 400, "New deck name required.", 0)
                /\ UNCHANGED <<DECKS, running>>
           ELSE IF old_name \notin DOMAIN DECKS \/ new_name \in DOMAIN DECKS
           THEN /\ resp' = Response("rename", 400, "Rename failed.", 0)
                /\ UNCHANGED <<DECKS, running>>
           ELSE /\ DECKS' = [k \in (DOMAIN DECKS \ {old_name}) \cup {new_name} |->
                                IF k = new_name THEN DECKS[old_name] ELSE DECKS[k]]
                /\ running' = [op |-> "rename", old_name |-> old_name,
                               new_name |-> new_name, i |-> 0, n |-> 0]
                /\ UNCHANGED resp
        /\ UNCHANGED <<FLASHCARDS, clock, nextId, scanner, ocr>>

\* the next statement of the rename_deck call the loop is inside
rename_deck_line ==
    /\ running.op = "rename"
    /\ IF running.i = 0
       THEN /\ IF running.new_name \in DOMAIN DECKS
               THEN /\ DECKS' = [DECKS EXCEPT ![running.new_name] =
                                    [@ EXCEPT !.name = running.new_name,
                                              !.updated_at = clock]]
                    /\ running' = [running EXCEPT !.i = 1]
                    /\ UNCHANGED resp
               ELSE /\ resp' = Response("rename", 500, "KeyError", 0)
                    /\ running' = Idle
                    /\ UNCHANGED DECKS
            /\ UNCHANGED FLASHCARDS
       ELSE IF running.i <= Len(FLASHCARDS)
       THEN /\ FLASHCARDS' =
                  [FLASHCARDS EXCEPT ![running.i] =
                      IF @.deck = running.old_name
                      THEN [@ EXCEPT !.deck = running.new_name]
                      ELSE @]
            /\ running' =
                  [running EXCEPT !.i = @ + 1,
                                  !.n = IF FLASHCARDS[running.i].deck
                                              = running.old_name
                                        THEN @ + 1 ELSE @]
            /\ UNCHANGED <<DECKS, resp>>
       ELSE /\ resp' = Response("rename", 200, "", running.n)
            /\ running' = Idle
            /\ UNCHANGED <<DECKS, FLASHCARDS>>
    /\ UNCHANGED <<clock, nextId, scanner, ocr>>

\* DELETE /api/decks/{name}: the handler up to the removal of the deck
delete_deck_enter(name) ==
    /\ LoopTakesRequest
    /\ IF name = DefaultName \/ name \notin DOMAIN DECKS
       THEN /\ resp' = Response("delete", 400,
                          "Delete failed or cannot delete Default deck.", 0)
            /\ UNCHANGED <<DECKS, running>>
       ELSE /\ DECKS' = [k \in DOMAIN DECKS \ {name} |-> DECKS[k]]
            /\ running' = [op |-> "delete", old_name |-> name,
                           new_name |-> DefaultName, i |-> 1, n |-> 0]
            /\ UNCHANGED resp
    /\ UNCHANGED <<FLASHCARDS, clock, nextId, scanner, ocr>>

\* the next statement of the delete_deck call the loop is inside
delete_deck_line ==
    /\ running.op = "delete"
    /\ IF running.i <= Len(FLASHCARDS)
       THEN /\ FLASHCARDS' =
                  [FLASHCARDS EXCEPT ![running.i] =
                      IF @.deck = running.old_name
                      THEN [@ EXCEPT !.deck = DefaultName]
                      ELSE @]
            /\ running' =
                  [running EXCEPT !.i = @ + 1,
                                  !.n = IF FLASHCARDS[running.i].deck
                                              = running.old_name
                                        THEN @ + 1 ELSE @]
            /\ UNCHANGED resp
       ELSE /\ resp' = Response("delete", 200, "", running.n)
            /\ running' = Idle
            /\ UNCHANGED FLASHCARDS
    /\ UNCHANGED <<DECKS, clock, nextId, scanner, ocr>>

\* datetime.utcnow() moves on between two requests
Tick ==
    /\ clock < MaxClock
    /\ clock' = clock + 1
    /\ UNCHANGED <<DECKS, FLASHCARDS, nextId, resp, running, scanner, ocr>>

\* the stores as the import of ocr_utils leaves them
StoresAtImport ==
    /\ DECKS = [k \in {DefaultName} |-> Deck(1, DefaultName, 0)]
    /\ FLASHCARDS = <<>>
    /\ clock = 0
    /\ nextId = 2
    /\ resp = Response("start", 0, "", 0)
    /\ running = Idle

\* no upload has been read, process_image has not been called
NoUpload == image_data = <<>> /\ result = <<>>

\* the stores after the import, no extraction called
Init ==
    /\ StoresAtImport
    /\ NoUpload
    /\ lines = <<>>
    /\ i = 0
    /\ flashcards = <<>>

(***************************************************************************)
(* FlashcardExtractor, the flashcard scanner (test_flashcard_logic.py).    *)
(* Index k of a Python list is position k + 1 of the sequence.  A regular  *)
(* expression anchored with ^ is matched by walking the line from its      *)
(* first character; re.IGNORECASE compares the lower-cased letters.        *)
(***************************************************************************)
Digits == {"0", "1", "2", "3", "4", "5", "6", "7", "8", "9"}

Min(a, b) == IF a <= b THEN a ELSE b

\* xs[k] of a Python list
At(xs, k) == xs[k + 1]

\* text.split('\n')
RECURSIVE split(_)
split(text) ==
    IF \E p \in DOMAIN text : text[p] = "\n"
    THEN LET nl == CHOOSE p \in DOMAIN text :
                      text[p] = "\n" /\ \A j \in 1..(p - 1) : text[j] # "\n"
         IN  <<SubSeq(text, 1, nl - 1)>>
                 \o split(SubSeq(text, nl + 1, Len(text)))
    ELSE <<text>>

\* sep.join(parts)
RECURSIVE join(_, _)
join(sep, parts) ==
    IF parts = <<>> THEN <<>>
    ELSE IF Len(parts) = 1 THEN parts[1]
    ELSE parts[1] \o sep \o join(sep, Tail(parts))

\* \s* from position p of s: the first position the run does not cover
RECURSIVE SpaceEnd(_, _)
SpaceEnd(s, p) ==
    IF p <= Len(s) /\ s[p] \in Whitespace THEN SpaceEnd(s, p + 1) ELSE p

\* \d* from position p of s: the first position the run does not cover
RECURSIVE DigitEnd(_, _)
DigitEnd(s, p) ==
    IF p <= Len(s) /\ s[p] \in Digits THEN DigitEnd(s, p + 1) ELSE p

\* the match of ^word\s*[enders], or of ^word\d+\s*[enders] when digits is
\* set, at the start of line: the position of its last character, 0 when
\* the expression does not match
MarkerEnd(line, word, digits, enders) ==
    LET a == Len(word) + 1
        b == IF digits THEN DigitEnd(line, a) ELSE a
        c == SpaceEnd(line, b)
    IN  IF /\ Len(line) >= Len(word)
           /\ lower(SubSeq(line, 1, Len(word))) = lower(word)
           /\ (digits => b > a)
           /\ c <= Len(line)
           /\ line[c] \in enders
        THEN c
        ELSE 0

WordQ == <<"Q">>
WordQuestion == <<"Q", "u", "e", "s", "t", "i", "o", "n">>
WordA == <<"A">>
WordAnswer == <<"A", "n", "s", "w", "e", "r">>
WordAns == <<"A", "n", "s">>

\* line.rstrip().endswith('?')
EndsWithQuestionMark(line) ==
    rstrip(line) # <<>> /\ rstrip(line)[Len(rstrip(line))] = "?"

\* _is_question_line that takes `Q.` for `Q:`
_is_question_line_dot(line) ==
    \/ MarkerEnd(line, WordQ, FALSE, {".", ":"}) # 0
    \/ MarkerEnd(line, WordQuestion, FALSE, {":"}) # 0
    \/ MarkerEnd(line, WordQ, TRUE, {".", ":"}) # 0
    \/ MarkerEnd(line, <<>>, TRUE, {"."}) # 0
    \/ (line # <<>> /\ line[1] = "?")
    \/ EndsWithQuestionMark(line)

\* _is_question_line that takes the marker `A:` for a question marker too
_is_question_line_or_answer(line) ==
    \/ MarkerEnd(line, WordQ, FALSE, {":"}) # 0
    \/ MarkerEnd(line, WordQuestion, FALSE, {":"}) # 0
    \/ MarkerEnd(line, WordQ, TRUE, {".", ":"}) # 0
    \/ MarkerEnd(line, <<>>, TRUE, {"."}) # 0
    \/ MarkerEnd(line, WordA, FALSE, {":"}) # 0
    \/ (line # <<>> /\ line[1] = "?")
    \/ EndsWithQuestionMark(line)

_is_question_line(line) ==
    \/ MarkerEnd(line, WordQ, FALSE, {":"}) # 0
    \/ MarkerEnd(line, WordQuestion, FALSE, {":"}) # 0
    \/ MarkerEnd(line, WordQ, TRUE, {".", ":"}) # 0
    \/ MarkerEnd(line, <<>>, TRUE, {"."}) # 0
    \/ (line # <<>> /\ line[1] = "?")
    \/ EndsWithQuestionMark(line)

_clean_question_text(line) ==
    LET e1 == MarkerEnd(line, WordQ, FALSE, {":"})
        e2 == MarkerEnd(line, WordQuestion, FALSE, {":"})
        e3 == MarkerEnd(line, WordQ, TRUE, {".", ":"})
        e4 == MarkerEnd(line, <<>>, TRUE, {"."})
        e  == IF e1 # 0 THEN e1
              ELSE IF e2 # 0 THEN e2
              ELSE IF e3 # 0 THEN e3
              ELSE IF e4 # 0 THEN SpaceEnd(line, e4 + 1) - 1
              ELSE 0
    IN  strip(SubSeq(line, e + 1, Len(line)))

\* _is_answer_line that turns down a line ending in `?`
_is_answer_line_unless_asks(line) ==
    /\ \/ MarkerEnd(line, WordA, FALSE, {":"}) # 0
       \/ MarkerEnd(line, WordAnswer, FALSE, {":"}) # 0
       \/ MarkerEnd(line, WordAns, FALSE, {":"}) # 0
       \/ MarkerEnd(line, WordA, TRUE, {".", ":"}) # 0
    /\ ~EndsWithQuestionMark(line)

_is_answer_line(line) ==
    \/ MarkerEnd(line, WordA, FALSE, {":"}) # 0
    \/ MarkerEnd(line, WordAnswer, FALSE, {":"}) # 0
    \/ MarkerEnd(line, WordAns, FALSE, {":"}) # 0
    \/ MarkerEnd(line, WordA, TRUE, {".", ":"}) # 0

\* _clean_answer_text that leaves the answer marker in place
_clean_answer_text_keeps_marker(line) == strip(line)

_clean_answer_text(line) ==
    LET e1 == MarkerEnd(line, WordA, FALSE, {":"})
        e2 == MarkerEnd(line, WordAnswer, FALSE, {":"})
        e3 == MarkerEnd(line, WordAns, FALSE, {":"})
        e4 == MarkerEnd(line, WordA, TRUE, {".", ":"})
        e  == IF e1 # 0 THEN e1
              ELSE IF e2 # 0 THEN e2
              ELSE IF e3 # 0 THEN e3
              ELSE e4
    IN  strip(SubSeq(line, e + 1, Len(line)))

\* an entry of answer_parts: the text appended and the index of the line it
\* was read from
Part(text, k) == [part |-> text, at |-> k]

\* an inner loop of _find_answer that takes question lines as well
RECURSIVE find_answer_continuation_any(_, _, _, _)
find_answer_continuation_any(ls, j, stop, answer_parts) ==
    IF j >= stop
    THEN answer_parts
    ELSE LET next_line == strip(At(ls, j))
         IN  IF next_line # <<>> /\ ~_is_answer_line(next_line)
             THEN find_answer_continuation_any(ls, j + 1, stop,
                      Append(answer_parts, Part(next_line, j)))
             ELSE answer_parts

\* an inner loop of _find_answer that takes no line after the marker
find_answer_continuation_none(ls, j, stop, answer_parts) == answer_parts

\* the inner loop of _find_answer, for j in range(i + 1, min(i + 3, len(lines)))
RECURSIVE find_answer_continuation(_, _, _, _)
find_answer_continuation(ls, j, stop, answer_parts) ==
    IF j >= stop
    THEN answer_parts
    ELSE LET next_line == strip(At(ls, j))
         IN  IF /\ next_line # <<>>
                /\ ~_is_question_line(next_line)
                /\ ~_is_answer_line(next_line)
             THEN find_answer_continuation(ls, j + 1, stop,
                      Append(answer_parts, Part(next_line, j)))
             ELSE answer_parts

\* the outer loop of _find_answer without the break at a question line
RECURSIVE find_answer_scan_past_questions(_, _, _, _)
find_answer_scan_past_questions(ls, k, stop, answer_parts) ==
    IF k >= stop
    THEN answer_parts
    ELSE LET line == strip(At(ls, k))
             cleaned_answer == _clean_answer_text(line)
         IN  IF _is_answer_line(line)
             THEN find_answer_continuation(ls, k + 1, Min(k + 3, Len(ls)),
                      IF cleaned_answer # <<>>
                      THEN Append(answer_parts, Part(cleaned_answer, k))
                      ELSE answer_parts)
             ELSE IF line # <<>> /\ ~_is_question_line(line)
             THEN find_answer_scan_past_questions(ls, k + 1, stop,
                      Append(answer_parts, Part(line, k)))
             ELSE find_answer_scan_past_questions(ls, k + 1, stop,
                                                  answer_parts)

\* the outer loop of _find_answer with the answer test in front of the
\* question test
RECURSIVE find_answer_scan_answer_first(_, _, _, _)
find_answer_scan_answer_first(ls, k, stop, answer_parts) ==
    IF k >= stop
    THEN answer_parts
    ELSE LET line == strip(At(ls, k))
             cleaned_answer == _clean_answer_text(line)
         IN  IF _is_answer_line(line)
             THEN find_answer_continuation(ls, k + 1, Min(k + 3, Len(ls)),
                      IF cleaned_answer # <<>>
                      THEN Append(answer_parts, Part(cleaned_answer, k))
                      ELSE answer_parts)
             ELSE IF _is_question_line(line)
             THEN answer_parts
             ELSE IF line # <<>>
             THEN find_answer_scan_answer_first(ls, k + 1, stop,
                      Append(answer_parts, Part(line, k)))
             ELSE find_answer_scan_answer_first(ls, k + 1, stop, answer_parts)

\* the outer loop of _find_answer,
\* for i in range(start_index, min(start_index + 5, len(lines)))
RECURSIVE find_answer_scan(_, _, _, _)
find_answer_scan(ls, k, stop, answer_parts) ==
    IF k >= stop
    THEN answer_parts
    ELSE LET line == strip(At(ls, k))
             cleaned_answer == _clean_answer_text(line)
         IN  IF _is_question_line(line)
             THEN answer_parts
             ELSE IF _is_answer_line(line)
             THEN find_answer_continuation(ls, k + 1, Min(k + 3, Len(ls)),
                      IF cleaned_answer # <<>>
                      THEN Append(answer_parts, Part(cleaned_answer, k))
                      ELSE answer_parts)
             ELSE IF line # <<>> /\ ~_is_question_line(line)
             THEN find_answer_scan(ls, k + 1, stop,
                      Append(answer_parts, Part(line, k)))
             ELSE find_answer_scan(ls, k + 1, stop, answer_parts)

\* answer_parts of a _find_answer that looks 6 lines ahead
answer_parts_of_six_lines(ls, start_index) ==
    find_answer_scan(ls, start_index, Min(start_index + 6, Len(ls)), <<>>)

\* answer_parts as _find_answer has it at its return statement
answer_parts_of(ls, start_index) ==
    find_answer_scan(ls, start_index, Min(start_index + 5, Len(ls)), <<>>)

_find_answer(ls, start_index) ==
    LET answer_parts == answer_parts_of(ls, start_index)
    IN  strip(join(<<" ">>, [p \in DOMAIN answer_parts |-> answer_parts[p].part]))

\* _find_next_question_index that searches from the question itself
_find_next_question_index_behind(ls, start_index) == start_index - 1

_find_next_question_index(ls, start_index) ==
    IF \E k \in start_index..(Len(ls) - 1) : _is_question_line(At(ls, k))
    THEN CHOOSE k \in start_index..(Len(ls) - 1) :
            /\ _is_question_line(At(ls, k))
            /\ \A j \in start_index..(k - 1) : ~_is_question_line(At(ls, j))
    ELSE Len(ls)

\* an iteration that appends a pair at every question line, without the test
\* `if question and answer`
extract_flashcards_loop_untested(ls, k, cards) ==
    LET line == strip(At(ls, k))
    IN  IF _is_question_line(line)
        THEN [i |-> _find_next_question_index(ls, k + 1),
              flashcards |-> Append(cards,
                  [question |-> _clean_question_text(line),
                   answer |-> _find_answer(ls, k + 1)])]
        ELSE [i |-> k + 1, flashcards |-> cards]

\* one iteration of the while loop of extract_flashcards, at index k with
\* the pairs cards collected so far: the next index and the pairs
extract_flashcards_loop(ls, k, cards) ==
    LET line == strip(At(ls, k))
        question == _clean_question_text(line)
        answer == _find_answer(ls, k + 1)
    IN  IF _is_question_line(line)
        THEN IF question # <<>> /\ answer # <<>>
             THEN [i |-> _find_next_question_index(ls, k + 1),
                   flashcards |-> Append(cards, [question |-> question,
                                                 answer |-> answer])]
             ELSE [i |-> k + 1, flashcards |-> cards]
        ELSE [i |-> k + 1, flashcards |-> cards]

\* extract_flashcards(text), one iteration of its loop per step; the call
\* has returned flashcards when i has reached len(lines)
extract_flashcards ==
    /\ i < Len(lines)
    /\ i' = extract_flashcards_loop(lines, i, flashcards).i
    /\ flashcards' = extract_flashcards_loop(lines, i, flashcards).flashcards
    /\ UNCHANGED <<lines, stores, ocr>>

(***************************************************************************)
(* OCRProcessor (ocr_utils.py).  An uploaded image is modelled by what the *)
(* libraries make of it: whether Image.open decodes it, whether            *)
(* reader.readtext returns, and the lines it returns.                      *)
(***************************************************************************)
Image(opens, reads, ocr_results) ==
    [opens |-> opens, reads |-> reads, ocr_results |-> ocr_results]

\* the names defined in the body of class OCRProcessor
OCRProcessor == {"__init__", "process_image"}

\* the def _extract_flashcards nested in extract_semantic_flashcards, as it
\* would run: re.sub in its _clean_question_text raises re.error
\* (unterminated character set), so the call raises at the first question
\* line and returns [] when the text has none
_extract_flashcards(text) ==
    IF \E k \in DOMAIN split(text) : _is_question_line(strip(split(text)[k]))
    THEN [raises |-> TRUE, flashcards |-> <<>>]
    ELSE [raises |-> FALSE, flashcards |-> <<>>]

\* str(e) of the AttributeError that self._extract_flashcards raises
NoAttribute ==
    "'OCRProcessor' object has no attribute '_extract_flashcards'"

\* the dictionary of the except branch of process_image
ProcessingFailed(error) ==
    [success |-> FALSE, error |-> error, extracted_text |-> EmptyStr,
     flashcards |-> <<>>, total_flashcards |-> 0]

\* the await file.read() of upload_and_process_image: the content of the
\* upload is in hand, process_image is called next
upload_and_process_image(file) ==
    /\ image_data = <<>>
    /\ image_data' = <<file>>
    /\ UNCHANGED <<result, stores, scanner>>

\* OCRProcessor.process_image(image_data)
process_image ==
    /\ image_data # <<>>
    /\ LET image == image_data[1]
           extracted_text == join(<<"\n">>, image.ocr_results)
           flashcards_ == _extract_flashcards(extracted_text)
       IN  result' =
             IF ~image.opens
             THEN <<ProcessingFailed("cannot identify image file")>>
             ELSE IF ~image.reads
             THEN <<ProcessingFailed("readtext failed")>>
             ELSE IF "_extract_flashcards" \notin OCRProcessor
             THEN <<ProcessingFailed(NoAttribute)>>
             ELSE IF flashcards_.raises
             THEN <<ProcessingFailed("unterminated character set")>>
             ELSE <<[success |-> TRUE, extracted_text |-> extracted_text,
                     flashcards |-> flashcards_.flashcards,
                     total_flashcards |-> Len(flashcards_.flashcards)]>>
    /\ image_data' = <<>>
    /\ UNCHANGED <<stores, scanner>>

(***************************************************************************)
(* Request payloads.                                                       *)
(***************************************************************************)
NameA == <<"A">>
NameB == <<"B">>
TagX == <<"x">>
TagY == <<"y">>
ScoreGood == <<"g">>
ScoreHard == <<"h">>
TextAb == <<"A", "b">>
TextC == <<"c">>

\* "name" of the create and rename payloads (a missing key reads as "")
NamePayloads == {EmptyStr, NameA, <<" ", "A", " ">>, NameB, DefaultName}
\* {old_name} and {name} path segments; a path segment is never empty
PathNames == {NameA, NameB, DefaultName, <<" ", "A", " ">>}
\* "deck" of the add payload (a missing key reads as "Default")
DeckPayloads == {EmptyStr, NameA, NameB, DefaultName}
\* "tags" of the add payload (a missing key reads as [])
TagsPayloads == {<<>>, <<TagY>>, <<TagX, TagX>>}
TagPayloads == {EmptyStr, TagX, <<" ", "y">>}
ScorePayloads == {EmptyStr, ScoreGood, <<"h", " ">>}
\* {fc_id} path segments: every id in use, and 0, which is never issued
IdInputs == 0..MaxCards
\* "question" and "answer" of the add payload
TextPayloads ==
    {<<EmptyStr, TextC>>, <<TextAb, <<" ">>>>, <<TextAb, TextC>>,
     <<<<" ", "b">>, <<"a", "B", " ">>>>}

QueryParams == {None, EmptyStr, <<"a">>, <<"C">>, <<"b", "c">>}
DeckParams == {None, EmptyStr, NameA, NameB, DefaultName}
TagParams == {None, EmptyStr, TagX, TagY}
AssessmentParams == {None, EmptyStr, ScoreGood, ScoreHard}

\* the bounds of the model, as guards of the requests that would exceed them
RoomForDeck(payload_name) ==
    (Truthy(strip(payload_name)) /\ strip(payload_name) \notin DOMAIN DECKS)
        => nextId <= MaxCreates + 1
RoomForCard(payload_question, payload_answer, max) ==
    (Truthy(strip(payload_question)) /\ Truthy(strip(payload_answer)))
        => Len(FLASHCARDS) < max
RoomForScore(fc_id, payload_score) ==
    Truthy(strip(payload_score)) =>
        \A k \in DOMAIN FLASHCARDS :
            FLASHCARDS[k].id = fc_id =>
                Len(FLASHCARDS[k].assessment.history) < MaxHist

(***************************************************************************)
(* Request mixes.  The handlers are the same in each; a mix fixes which    *)
(* requests arrive and with which payloads.                                *)
(***************************************************************************)
\* SpecDecks: deck management, with flashcards filed under the decks
CreateDeck ==
    \E n \in NamePayloads : RoomForDeck(n) /\ api_create_deck(n)
RenameDeck == \E o \in PathNames, n \in NamePayloads : api_rename_deck(o, n)
DeleteDeck == \E n \in PathNames : api_delete_deck(n)
AddToDeck ==
    \E q \in {EmptyStr, TextAb}, d \in DeckPayloads :
        RoomForCard(q, TextC, MaxCards) /\ api_add_flashcard(q, TextC, d, <<>>)
SearchDeck == \E d \in DeckParams : api_search_flashcards(None, d, None, None)

NextDecks ==
    \/ CreateDeck
    \/ RenameDeck
    \/ DeleteDeck
    \/ AddToDeck
    \/ SearchDeck
    \/ Tick

SpecDecks == Init /\ [][NextDecks]_vars

\* SpecRefs: as SpecDecks, and every add names a deck that exists
AddToExistingDeck ==
    \E q \in {EmptyStr, TextAb}, d \in DeckPayloads :
        /\ (IF Truthy(d) THEN d ELSE DefaultName) \in DOMAIN DECKS
        /\ RoomForCard(q, TextC, MaxCards)
        /\ api_add_flashcard(q, TextC, d, <<>>)

NextRefs ==
    \/ CreateDeck
    \/ RenameDeck
    \/ DeleteDeck
    \/ AddToExistingDeck
    \/ SearchDeck
    \/ Tick

SpecRefs == Init /\ [][NextRefs]_vars

\* SpecTags: tagging
AddTagged ==
    \E q \in {EmptyStr, TextAb}, t \in TagsPayloads :
        RoomForCard(q, TextC, MaxCards)
        /\ api_add_flashcard(q, TextC, DefaultName, t)
TagFlashcard ==
    \E fc_id \in IdInputs, t \in TagPayloads : api_tag_flashcard(fc_id, t)
UntagFlashcard ==
    \E fc_id \in IdInputs, t \in TagPayloads : api_untag_flashcard(fc_id, t)
SearchTag == \E t \in TagParams : api_search_flashcards(None, None, t, None)

NextTags ==
    \/ AddTagged
    \/ TagFlashcard
    \/ UntagFlashcard
    \/ SearchTag
    \/ Tick

SpecTags == Init /\ [][NextTags]_vars

\* SpecAssess: assessment
AddPlain ==
    \E q \in {EmptyStr, TextAb} :
        RoomForCard(q, TextC, MaxCards)
        /\ api_add_flashcard(q, TextC, DefaultName, <<>>)
UpdateAssessment ==
    \E fc_id \in IdInputs, s \in ScorePayloads :
        RoomForScore(fc_id, s) /\ api_update_assessment(fc_id, s)
SearchAssessment ==
    \E a \in AssessmentParams : api_search_flashcards(None, None, None, a)

NextAssess ==
    \/ AddPlain
    \/ UpdateAssessment
    \/ SearchAssessment
    \/ Tick

SpecAssess == Init /\ [][NextAssess]_vars

\* SpecSearch: search over flashcards that differ in every searched field
AddFlashcard ==
    \E qa \in TextPayloads, d \in {EmptyStr, NameA}, t \in {<<>>, <<TagX>>} :
        RoomForCard(qa[1], qa[2], MaxCards)
        /\ api_add_flashcard(qa[1], qa[2], d, t)
SearchFlashcards ==
    \E q \in QueryParams, d \in DeckParams \ {NameB}, t \in TagParams \ {TagY},
       a \in AssessmentParams : api_search_flashcards(q, d, t, a)

NextSearch ==
    \/ AddFlashcard
    \/ UpdateAssessment
    \/ SearchFlashcards

SpecSearch == Init /\ [][NextSearch]_vars

\* Spec: every handler, one flashcard
CreateA == \E n \in {EmptyStr, NameA} : RoomForDeck(n) /\ api_create_deck(n)
RenameAB ==
    \E o \in {NameA, DefaultName}, n \in {EmptyStr, NameA, NameB} :
        api_rename_deck(o, n)
AddOne ==
    \E q \in {EmptyStr, TextAb}, d \in {EmptyStr, NameA},
       t \in {<<>>, <<TagX, TagX>>} :
        RoomForCard(q, TextC, MaxCardsAll) /\ api_add_flashcard(q, TextC, d, t)
TagOne ==
    \E fc_id \in 0..MaxCardsAll, t \in {EmptyStr, TagX} :
        api_tag_flashcard(fc_id, t)
UntagOne ==
    \E fc_id \in 0..MaxCardsAll, t \in {EmptyStr, TagX} :
        api_untag_flashcard(fc_id, t)
AssessOne ==
    \E fc_id \in 0..MaxCardsAll, s \in {EmptyStr, ScoreGood} :
        RoomForScore(fc_id, s) /\ api_update_assessment(fc_id, s)
SearchOne ==
    \E d \in {None, NameA}, t \in {None, TagX} :
        api_search_flashcards(None, d, t, None)

Next ==
    \/ CreateA
    \/ RenameAB
    \/ DeleteDeck
    \/ AddOne
    \/ TagOne
    \/ UntagOne
    \/ AssessOne
    \/ SearchOne
    \/ Tick

Spec == Init /\ [][Next]_vars

\* SpecFrame: deck management over flashcards that carry tags and scores
AddTaggedToDeck ==
    \E d \in DeckPayloads, t \in {<<>>, <<TagY>>} :
        RoomForCard(TextAb, TextC, MaxCards)
        /\ api_add_flashcard(TextAb, TextC, d, t)

NextFrame ==
    \/ CreateDeck
    \/ RenameDeck
    \/ DeleteDeck
    \/ AddTaggedToDeck
    \/ AssessOne

SpecFrame == Init /\ [][NextFrame]_vars

\* SpecAtomic: rename and delete taken one statement at a time, among the
\* add, tag and search requests that read the same stores
AtomCreate == LoopTakesRequest /\ RoomForDeck(NameA) /\ api_create_deck(NameA)
EnterRename ==
    \E o \in {NameA, NameB}, n \in {EmptyStr, NameA, NameB} :
        rename_deck_enter(o, n)
EnterDelete == \E n \in {NameA, NameB, DefaultName} : delete_deck_enter(n)
ObserveAdd ==
    /\ LoopTakesRequest
    /\ \E d \in {EmptyStr, NameA, NameB} :
          /\ RoomForCard(TextAb, TextC, MaxCards)
          /\ api_add_flashcard(TextAb, TextC, d, <<>>)
ObserveTag ==
    LoopTakesRequest /\ \E fc_id \in IdInputs : api_tag_flashcard(fc_id, TagX)
ObserveSearch ==
    /\ LoopTakesRequest
    /\ \E d \in {None, NameA, NameB, DefaultName} :
          api_search_flashcards(None, d, None, None)

NextAtomic ==
    \/ AtomCreate
    \/ EnterRename
    \/ rename_deck_line
    \/ EnterDelete
    \/ delete_deck_line
    \/ ObserveAdd
    \/ ObserveTag
    \/ ObserveSearch
    \/ Tick

SpecAtomic == Init /\ [][NextAtomic]_vars

(***************************************************************************)
(* Texts handed to extract_flashcards.  A text is built from lines joined  *)
(* by newlines, and the call splits it again.                              *)
(***************************************************************************)
LineBlank == <<>>
LineProse == <<"z">>
LineQx == <<"Q", ":", " ", "x">>
LineQw == <<"Q", ":", " ", "w", "?">>
LineIndentedQw == <<" ", "Q", ":", " ", "w">>
LineAy == <<"A", ":", " ", "y">>
LineAv == <<"A", ":", " ", "v", "?">>
LineQNoColon == <<"Q", " ", "x">>
LineNoDot == <<"1", " ", "x">>
LineAsks == <<"w", "?">>

\* the texts of 1..n lines drawn from the set L
TextsOf(L, n) ==
    {join(<<"\n">>, ls) : ls \in UNION {[1..m -> L] : m \in 1..n}}

\* the locals of extract_flashcards(text) when its loop is entered
Called(text) ==
    /\ lines = split(text)
    /\ i = 0
    /\ flashcards = <<>>

\* SpecPair: texts of `Q: ...` and `A: ...` lines, prose and blank lines
PairLines == {LineQx, LineQw, LineAy, LineAv, LineProse, LineBlank}
InitPair ==
    StoresAtImport /\ NoUpload
        /\ \E text \in TextsOf(PairLines, MaxPairLines) : Called(text)
SpecPair == InitPair /\ [][extract_flashcards]_vars

\* SpecBlocks: texts of question lines, indented or not, and answer lines,
\* marked or not
BlockLines == {LineQx, LineIndentedQw, LineAy, LineProse, LineBlank}
InitBlocks ==
    StoresAtImport /\ NoUpload
        /\ \E text \in TextsOf(BlockLines, MaxBlockLines) : Called(text)
SpecBlocks == InitBlocks /\ [][extract_flashcards]_vars

\* SpecPlain: texts of lines without a question marker, and one line that
\* asks
UnmarkedLines == {LineAy, LineProse, LineBlank, LineQNoColon, LineNoDot}
PlainLines == UnmarkedLines \cup {LineAsks}
InitPlain ==
    StoresAtImport /\ NoUpload
        /\ \E text \in TextsOf(PlainLines, MaxPlainLines) : Called(text)
SpecPlain == InitPlain /\ [][extract_flashcards]_vars

\* SpecWindow: a question followed by up to MaxWindowLines lines, enough to
\* fill the answer window and the lines behind it
WindowLines == {LineQx, LineAy, LineProse, LineBlank}
WindowTexts ==
    {LineQx} \cup
    {LineQx \o <<"\n">> \o rest : rest \in TextsOf(WindowLines, MaxWindowLines)}
InitWindow ==
    StoresAtImport /\ NoUpload /\ \E text \in WindowTexts : Called(text)
SpecWindow == InitWindow /\ [][extract_flashcards]_vars

\* SpecAnswer: a question followed by up to MaxAnswerLines lines, among
\* them answer markers with and without text behind them
LineABare == <<"A", ":">>
AnswerTexts ==
    {LineQx \o <<"\n">> \o rest :
        rest \in TextsOf({LineQx, LineAy, LineABare, LineProse, LineBlank},
                         MaxAnswerLines)}
InitAnswer ==
    StoresAtImport /\ NoUpload /\ \E text \in AnswerTexts : Called(text)
SpecAnswer == InitAnswer /\ [][extract_flashcards]_vars

\* SpecMarkers: texts of lines that begin with the markers in their
\* variants: bare, lower case, with a dot for the colon, numbered
LineQBare == <<"Q", ":">>
LineQDot == <<"Q", ".", " ", "x">>
LineADot == <<"A", ".", " ", "y">>
LineLowerQ == <<"q", ":", " ", "x">>
LineLowerA == <<"a", ":", " ", "y">>
LineQ1Dot == <<"Q", "1", ".", " ", "x">>
LineA1Dot == <<"A", "1", ".", " ", "y">>
MarkerLines ==
    {LineQBare, LineQDot, LineADot, LineLowerQ, LineLowerA, LineQ1Dot,
     LineA1Dot, LineAv, LineProse}
InitMarkers ==
    StoresAtImport /\ NoUpload
        /\ \E text \in TextsOf(MarkerLines, MaxMarkerLines) : Called(text)
SpecMarkers == InitMarkers /\ [][extract_flashcards]_vars

\* SpecOcr: uploads of images that do not decode, that OCR fails on, and
\* that OCR reads up to MaxOcrLines lines from
OcrLines == {LineQx, LineAy, LineProse}
Images ==
    {Image(FALSE, FALSE, <<>>), Image(TRUE, FALSE, <<>>)} \cup
    {Image(TRUE, TRUE, ls) :
        ls \in UNION {[1..m -> OcrLines] : m \in 0..MaxOcrLines}}
Upload == \E file \in Images : upload_and_process_image(file)
NextOcr ==
    \/ Upload
    \/ process_image
SpecOcr == Init /\ [][NextOcr]_vars

(***************************************************************************)
(* Properties.                                                             *)
(***************************************************************************)
\* ids of the flashcards a search returns
ResultIds(found) == {found[k].id : k \in DOMAIN found}
\* ids of the flashcards filed under a deck name
IdsInDeck(F, name) == {F[k].id : k \in {j \in DOMAIN F : F[j].deck = name}}

\* C1: after any sequence of create, rename and delete requests a deck
\* named "Default" exists.
DefaultDeckExists == DefaultName \in DOMAIN DECKS

\* C2: when every add names a deck that exists at the time of the add,
\* every flashcard's deck field names a deck of the deck store.
ReferentialIntegrity ==
    \A k \in DOMAIN FLASHCARDS : FLASHCARDS[k].deck \in DOMAIN DECKS

\* C3: a successful rename(old, new) leaves every flashcard that referenced
\* old referencing new: search(deck=new) returns all of them and
\* search(deck=old) returns nothing.
RenameMovesFlashcards ==
    [][\A o \in PathNames, n \in NamePayloads :
          (api_rename_deck(o, n) /\ resp'.status = 200) =>
              /\ DOMAIN FLASHCARDS' = DOMAIN FLASHCARDS
              /\ \A k \in DOMAIN FLASHCARDS :
                    FLASHCARDS[k].deck = o =>
                        /\ FLASHCARDS'[k].id = FLASHCARDS[k].id
                        /\ FLASHCARDS'[k].deck = strip(n)
              /\ IdsInDeck(FLASHCARDS, o) \subseteq
                    ResultIds(search_flashcards(FLASHCARDS', None, strip(n),
                                                None, None))
              /\ search_flashcards(FLASHCARDS', None, o, None, None) = <<>>
      ]_vars

\* C3 witness: a rename has just moved two flashcards, which now sit in a
\* deck of the store.
RenameMovedTwo ==
    /\ resp.op = "rename"
    /\ resp.status = 200
    /\ resp.n >= 2
    /\ \E k \in DOMAIN FLASHCARDS :
          /\ FLASHCARDS[k].deck \in DOMAIN DECKS
          /\ Cardinality(IdsInDeck(FLASHCARDS, FLASHCARDS[k].deck)) >= 2

\* C4: delete(name) fails whenever name is "Default" or names no deck; a
\* successful delete removes the deck and leaves every flashcard that
\* referenced it referencing "Default", where search(deck="Default") finds it.
DeleteMovesToDefault ==
    [][\A n \in PathNames :
          api_delete_deck(n) =>
              /\ (n = DefaultName \/ n \notin DOMAIN DECKS) =>
                    /\ resp'.status = 400
                    /\ DECKS' = DECKS
                    /\ FLASHCARDS' = FLASHCARDS
              /\ resp'.status = 200 =>
                    /\ DOMAIN DECKS' = DOMAIN DECKS \ {n}
                    /\ DOMAIN FLASHCARDS' = DOMAIN FLASHCARDS
                    /\ \A k \in DOMAIN FLASHCARDS :
                          FLASHCARDS[k].deck = n =>
                              /\ FLASHCARDS'[k].id = FLASHCARDS[k].id
                              /\ FLASHCARDS'[k].deck = DefaultName
                    /\ IdsInDeck(FLASHCARDS, n) \subseteq
                          ResultIds(search_flashcards(FLASHCARDS', None,
                                                      DefaultName, None, None))
      ]_vars

\* C4 witness: a delete has just moved two flashcards to "Default".
DeleteMovedTwo ==
    /\ resp.op = "delete"
    /\ resp.status = 200
    /\ resp.n >= 2
    /\ Cardinality(IdsInDeck(FLASHCARDS, DefaultName)) >= 2

\* C5: rename(old, new) succeeds exactly when old names a deck and new names
\* none; rename(x, x) of an existing deck x is rejected.
RenameSucceedsIff ==
    [][\A o \in PathNames, n \in NamePayloads :
          (api_rename_deck(o, n) /\ Truthy(strip(n))) =>
              /\ resp'.status = 200 <=>
                    (o \in DOMAIN DECKS /\ strip(n) \notin DOMAIN DECKS)
              /\ (o \in DOMAIN DECKS /\ strip(n) = o) =>
                    /\ resp'.status = 400
                    /\ resp'.detail = "Rename failed."
                    /\ DECKS' = DECKS
      ]_vars

\* C5 witness: a rename between two decks that both exist was rejected.
RenameRejected ==
    /\ resp.op = "rename"
    /\ resp.status = 400
    /\ resp.detail = "Rename failed."
    /\ PathNames \cap DOMAIN DECKS # {}
    /\ Cardinality(DOMAIN DECKS) >= 2

\* C6: a request that fails leaves the deck store and every flashcard (deck
\* reference, tags, assessment, timestamps) exactly as they were.
FailureLeavesStores ==
    [][resp'.status \in {400, 404} =>
          (DECKS' = DECKS /\ FLASHCARDS' = FLASHCARDS)]_vars

\* C6 witness: a tag request has just failed on a flashcard that carries the
\* tag and was last written at an earlier clock reading.
TagFailedOnTaggedCard ==
    /\ resp.op = "tag"
    /\ resp.status = 404
    /\ \E k \in DOMAIN FLASHCARDS :
          /\ ListIn(TagX, FLASHCARDS[k].tags)
          /\ FLASHCARDS[k].assessment.history # <<>>
          /\ FLASHCARDS[k].updated_at < clock

\* C7: no flashcard's tag list holds the same tag twice.
TagsUnique ==
    \A k \in DOMAIN FLASHCARDS :
        \A a, b \in DOMAIN FLASHCARDS[k].tags :
            a # b => FLASHCARDS[k].tags[a] # FLASHCARDS[k].tags[b]

\* C8: for a known flashcard that does not carry tag t, tag(id, t) succeeds,
\* a following tag(id, t) fails and changes nothing, and the tags are then
\* the former tags followed by one copy of t.
TagTwice ==
    [][\A fc_id \in IdInputs, t \in TagPayloads :
          LET k == CardIndex(FLASHCARDS, fc_id)
              again == tag_flashcard(FLASHCARDS', fc_id, strip(t), clock')
          IN  (/\ api_tag_flashcard(fc_id, t)
               /\ Truthy(strip(t))
               /\ k # 0
               /\ ~ListIn(strip(t), FLASHCARDS[k].tags)) =>
                  /\ resp'.status = 200
                  /\ FLASHCARDS'[k].id = fc_id
                  /\ FLASHCARDS'[k].tags = FLASHCARDS[k].tags \o <<strip(t)>>
                  /\ Cardinality({j \in DOMAIN FLASHCARDS'[k].tags :
                                     FLASHCARDS'[k].tags[j] = strip(t)}) = 1
                  /\ again.ret = FALSE
                  /\ again.FLASHCARDS = FLASHCARDS'
      ]_vars

\* C8 witness: a tag request has just succeeded on a flashcard that already
\* carried another tag, and the new tag is last.
TaggedAfterOthers ==
    /\ resp.op = "tag"
    /\ resp.status = 200
    /\ \E k \in DOMAIN FLASHCARDS :
          /\ FLASHCARDS[k].tags = <<TagY, TagX>>
          /\ FLASHCARDS[k].updated_at = clock
          /\ \A j \in DOMAIN FLASHCARDS : j # k => FLASHCARDS[j].tags = <<>>

\* current is absent exactly when history is empty, and is otherwise the
\* score of the last history entry
CurrentIsLastScore(fc) ==
    IF fc.assessment.history = <<>>
    THEN fc.assessment.current = None
    ELSE /\ fc.assessment.current # None
         /\ fc.assessment.current =
               fc.assessment.history[Len(fc.assessment.history)].score

\* C9: updateAssessment(id, s) on a known id sets current to s and appends
\* one entry with score s to history; in every state current is the score of
\* the last history entry (absent when there is none); no step removes,
\* reorders or alters an earlier history entry.
AssessmentHistoryAppendOnly ==
    /\ [](\A k \in DOMAIN FLASHCARDS : CurrentIsLastScore(FLASHCARDS[k]))
    /\ [][/\ \A k \in DOMAIN FLASHCARDS :
                /\ k \in DOMAIN FLASHCARDS'
                /\ FLASHCARDS'[k].id = FLASHCARDS[k].id
                /\ Len(FLASHCARDS'[k].assessment.history) >=
                      Len(FLASHCARDS[k].assessment.history)
                /\ SubSeq(FLASHCARDS'[k].assessment.history, 1,
                          Len(FLASHCARDS[k].assessment.history)) =
                      FLASHCARDS[k].assessment.history
          /\ \A fc_id \in IdInputs, s \in ScorePayloads :
                LET k == CardIndex(FLASHCARDS, fc_id)
                IN  (api_update_assessment(fc_id, s) /\ Truthy(strip(s)) /\ k # 0)
                    => /\ resp'.status = 200
                       /\ FLASHCARDS'[k].assessment.current = strip(s)
                       /\ Len(FLASHCARDS'[k].assessment.history) =
                             Len(FLASHCARDS[k].assessment.history) + 1
                       /\ FLASHCARDS'[k].assessment.history[
                             Len(FLASHCARDS'[k].assessment.history)].score =
                             strip(s)
      ]_vars

\* C9 witness: an assessment request has just given a flashcard a second
\* history entry, with a score other than the first.
SecondScoreRecorded ==
    /\ resp.op = "assessment"
    /\ resp.status = 200
    /\ \E k \in DOMAIN FLASHCARDS :
          /\ Len(FLASHCARDS[k].assessment.history) = 2
          /\ FLASHCARDS[k].assessment.history[1].score = ScoreGood
          /\ FLASHCARDS[k].assessment.current = ScoreHard

\* two characters that differ at most in case
SameLetter(c, d) ==
    \/ c = d
    \/ \E k \in DOMAIN UpperAlpha : {c, d} = {UpperAlpha[k], LowerAlpha[k]}

\* sub occurs in text, case put aside
Occurs(sub, text) ==
    \E off \in 0..(Len(text) - Len(sub)) :
        \A j \in 1..Len(sub) : SameLetter(sub[j], text[off + j])

\* the flashcard satisfies every filter that is supplied
Matches(fc, query, deck, tag, assessment) ==
    /\ Truthy(query) => (Occurs(query, fc.question) \/ Occurs(query, fc.answer))
    /\ Truthy(deck) => fc.deck = deck
    /\ Truthy(tag) => tag \in {fc.tags[j] : j \in DOMAIN fc.tags}
    /\ Truthy(assessment) => fc.assessment.current = assessment

\* C10: search returns exactly the flashcards that satisfy every supplied
\* filter, each once; an absent or empty filter imposes no constraint, and
\* search without filters returns every flashcard.
SearchIsConjunctiveFilter ==
    \A q \in QueryParams, d \in DeckParams \ {NameB}, t \in TagParams \ {TagY},
       a \in AssessmentParams :
        LET r == search_flashcards(FLASHCARDS, q, d, t, a)
        IN  /\ ResultIds(r) =
                  {FLASHCARDS[k].id :
                      k \in {j \in DOMAIN FLASHCARDS :
                                Matches(FLASHCARDS[j], q, d, t, a)}}
            /\ Cardinality(ResultIds(r)) = Len(r)
            /\ \A j \in DOMAIN r :
                  \E k \in DOMAIN FLASHCARDS : r[j] = FLASHCARDS[k]
            /\ (~Truthy(q) /\ ~Truthy(d) /\ ~Truthy(t) /\ ~Truthy(a)) =>
                  ResultIds(r) = {FLASHCARDS[k].id : k \in DOMAIN FLASHCARDS}

\* C10 witness: a search has just returned one of two flashcards, which
\* differ in text, deck and tags, and one of which has a past score other
\* than its current one.
SearchReturnedOneOfTwo ==
    /\ resp.op = "search"
    /\ resp.n = 1
    /\ Len(FLASHCARDS) = 2
    /\ FLASHCARDS[1].question # FLASHCARDS[2].question
    /\ FLASHCARDS[1].deck # FLASHCARDS[2].deck
    /\ FLASHCARDS[1].tags # FLASHCARDS[2].tags
    /\ \E k \in DOMAIN FLASHCARDS :
          /\ Len(FLASHCARDS[k].assessment.history) = 2
          /\ FLASHCARDS[k].assessment.history[1].score #
                FLASHCARDS[k].assessment.current

\* C11: no request destroys a flashcard or rewrites its text: every flashcard
\* id of the store is still in the store after any request (deck deletion and
\* rename included), with the question and the answer it was added with.
FlashcardsNeverDestroyed ==
    [][\A k \in DOMAIN FLASHCARDS :
          \E j \in DOMAIN FLASHCARDS' :
              /\ FLASHCARDS'[j].id = FLASHCARDS[k].id
              /\ FLASHCARDS'[j].question = FLASHCARDS[k].question
              /\ FLASHCARDS'[j].answer = FLASHCARDS[k].answer
      ]_vars

\* C11 witness: the deck of a flashcard has just been deleted; the flashcard,
\* assessed earlier, is in the store with its question and answer.
FlashcardSurvivedDelete ==
    /\ resp.op = "delete"
    /\ resp.status = 200
    /\ resp.n >= 1
    /\ \E k \in DOMAIN FLASHCARDS :
          /\ FLASHCARDS[k].question = TextAb
          /\ FLASHCARDS[k].answer = TextC
          /\ FLASHCARDS[k].assessment.history # <<>>

\* C12: deck names are unique: every deck is stored under the key that
\* equals its name field, and no two decks of the store have the same name.
DeckNamesUnique ==
    /\ \A k \in DOMAIN DECKS : DECKS[k].name = k
    /\ \A k1, k2 \in DOMAIN DECKS :
          DECKS[k1].name = DECKS[k2].name => k1 = k2

\* C12 witness: a rename has just succeeded and the renamed deck stands
\* next to another deck.
RenamedDeckAmongOthers ==
    /\ resp.op = "rename"
    /\ resp.status = 200
    /\ NameB \in DOMAIN DECKS
    /\ Cardinality(DOMAIN DECKS) >= 2

\* a rename or delete has updated the deck map and some flashcard still
\* carries the deck reference it is rewriting
MidRewrite ==
    /\ running.op \in {"rename", "delete"}
    /\ running.old_name \notin DOMAIN DECKS
    /\ \E k \in DOMAIN FLASHCARDS : FLASHCARDS[k].deck = running.old_name

PairQuestions == {<<"x">>, <<"w", "?">>}
PairAnswers == {<<"y">>, <<"v", "?">>}
\* the lines `Q: x` and `A: y`
QLine(x) == <<"Q", ":", " ">> \o x
ALine(y) == <<"A", ":", " ">> \o y
\* s begins with pre
StartsWith(s, pre) == Len(s) >= Len(pre) /\ SubSeq(s, 1, Len(pre)) = pre
\* extract_flashcards has returned
Returned == lines # <<>> /\ i >= Len(lines)

\* C14 as stated: when the text contains the consecutive lines `Q: x` and
\* `A: y`, extract returns exactly one pair, with question x and answer y.
QAPairYieldsOnePair ==
    Returned =>
        \A k \in 0..(Len(lines) - 2), x \in PairQuestions, y \in PairAnswers :
            (At(lines, k) = QLine(x) /\ At(lines, k + 1) = ALine(y)) =>
                flashcards = <<[question |-> x, answer |-> y]>>

\* C14 amended: when the text contains the consecutive lines `Q: x` and
\* `A: y`, y not ending in `?`, then once the scan has passed them the pairs
\* hold one with question x whose answer begins with y; when the text is
\* those two lines alone, extract returns exactly the pair of x and y.
QAPairYieldsItsPair ==
    \A k \in 0..(Len(lines) - 2), x \in PairQuestions, y \in PairAnswers :
        (/\ k < i
         /\ At(lines, k) = QLine(x)
         /\ At(lines, k + 1) = ALine(y)
         /\ ~EndsWithQuestionMark(y)) =>
            /\ \E n \in DOMAIN flashcards :
                  /\ flashcards[n].question = x
                  /\ StartsWith(flashcards[n].answer, y)
            /\ Len(lines) = 2 =>
                  flashcards = <<[question |-> x, answer |-> y]>>

\* C14 witness: extract has returned the one pair of the text `Q: x`, `A: y`.
TwoLinesOnePair ==
    /\ Returned
    /\ lines = <<LineQx, LineAy>>
    /\ flashcards = <<[question |-> <<"x">>, answer |-> <<"y">>]>>

\* the line is blank once trimmed
Blank(l) == strip(l) = <<>>
\* a question line with question text, and the line that is its answer: a
\* marked answer with text, or unmarked prose
IsBlockQuestion(l) ==
    _is_question_line(strip(l)) /\ _clean_question_text(strip(l)) # <<>>
IsBlockAnswer(l) ==
    /\ ~Blank(l)
    /\ ~_is_question_line(strip(l))
    /\ _is_answer_line(strip(l)) => _clean_answer_text(strip(l)) # <<>>
\* the lines from index k on are blocks of a question line and its answer
\* line, with blank lines around the blocks
RECURSIVE IsBlocks(_, _)
IsBlocks(ls, k) ==
    IF k >= Len(ls) THEN TRUE
    ELSE IF Blank(At(ls, k)) THEN IsBlocks(ls, k + 1)
    ELSE /\ k + 1 < Len(ls)
         /\ IsBlockQuestion(At(ls, k))
         /\ IsBlockAnswer(At(ls, k + 1))
         /\ IsBlocks(ls, k + 2)
\* the marker-stripped question and answer of each block, in block order
RECURSIVE BlockPairs(_, _)
BlockPairs(ls, k) ==
    IF k + 1 >= Len(ls) THEN <<>>
    ELSE IF Blank(At(ls, k)) THEN BlockPairs(ls, k + 1)
    ELSE <<[question |-> _clean_question_text(strip(At(ls, k))),
            answer |-> IF _is_answer_line(strip(At(ls, k + 1)))
                       THEN _clean_answer_text(strip(At(ls, k + 1)))
                       ELSE strip(At(ls, k + 1))]>>
             \o BlockPairs(ls, k + 2)

\* C15: for a text of N blocks, each a question line with question text
\* followed by its answer line (marked, or unmarked prose), with blank
\* lines between the blocks or not, extract returns exactly the N pairs of
\* the blocks, in block order, markers stripped.
BlocksYieldTheirPairs ==
    (Returned /\ IsBlocks(lines, 0)) => flashcards = BlockPairs(lines, 0)

\* the first index from start on whose trimmed line is a question line, the
\* number of lines when there is none
NextQuestionLine(ls, start) ==
    IF \E k \in start..(Len(ls) - 1) : _is_question_line(strip(At(ls, k)))
    THEN CHOOSE k \in start..(Len(ls) - 1) :
            /\ _is_question_line(strip(At(ls, k)))
            /\ \A j \in start..(k - 1) : ~_is_question_line(strip(At(ls, j)))
    ELSE Len(ls)

\* C18: after a pair is emitted for the question at line i, the scan resumes
\* at the first index from i + 1 on whose trimmed line is a question line,
\* the classification of the main scan, or at the end of the input when
\* there is none: no question line in between is skipped.
ResumesAtNextQuestion ==
    [][Len(flashcards') > Len(flashcards) =>
          i' = NextQuestionLine(lines, i + 1)]_vars

\* C17: when no line of the text is a question line (no question marker, no
\* trailing `?`), extract yields no pair: answer-marker lines and prose alone
\* never produce one.
NoQuestionNoPair ==
    (\A k \in DOMAIN lines : lines[k] \in UnmarkedLines) => flashcards = <<>>

\* C17 witness: extract has returned no pair for a text of three or more
\* lines, none a question line, in which prose follows an `A:` line.
AnswerAndProseNoPair ==
    /\ Returned
    /\ Len(lines) >= 3
    /\ \A k \in DOMAIN lines : lines[k] \in UnmarkedLines
    /\ \E k \in 1..(Len(lines) - 1) :
          lines[k] = LineAy /\ lines[k + 1] = LineProse
    /\ flashcards = <<>>

\* the loop of extract_flashcards is at a question line
AtQuestion == i < Len(lines) /\ _is_question_line(strip(At(lines, i)))
\* a line of unmarked prose: not blank, no question line, no answer marker
Prose(l) ==
    /\ ~Blank(l)
    /\ ~_is_question_line(strip(l))
    /\ ~_is_answer_line(strip(l))
\* indices of the lines that contribute to the answer searched from start
AnswerLines(ls, start) ==
    {answer_parts_of(ls, start)[p].at : p \in DOMAIN answer_parts_of(ls, start)}

BlankNeverTerminates ==
    AtQuestion =>
        \A b \in (i + 1)..(Len(lines) - 2) :
            (Blank(At(lines, b)) /\ Prose(At(lines, b + 1))) =>
                /\ (/\ b + 1 <= i + 5
                    /\ \A j \in (i + 1)..(b - 1) :
                          Blank(At(lines, j)) \/ Prose(At(lines, j)))
                      => b + 1 \in AnswerLines(lines, i + 1)
                /\ (/\ b - 1 >= i + 1
                    /\ b - 1 <= i + 5
                    /\ _is_answer_line(strip(At(lines, b - 1)))
                    /\ \A j \in (i + 1)..(b - 2) :
                          Blank(At(lines, j)) \/ Prose(At(lines, j)))
                      => b + 1 \in AnswerLines(lines, i + 1)

\* C20: the answer of the question at line i is read from lines i+1..i+7
\* only, and from lines before the next question line; a line behind i+5 is
\* one of the 2 lines that follow an answer-marker line of i+1..i+5; lines
\* past i+7, and the next question line and the lines after it, have no
\* effect on the answer.
AnswerStaysInWindow ==
    AtQuestion =>
        LET nextq == NextQuestionLine(lines, i + 1)
            marked == {m \in (i + 1)..Min(i + 5, Len(lines) - 1) :
                          _is_answer_line(strip(At(lines, m)))}
        IN  /\ \A k \in AnswerLines(lines, i + 1) :
                  /\ k \in (i + 1)..(i + 7)
                  /\ k < nextq
                  /\ k > i + 5 => \E m \in marked : k \in {m + 1, m + 2}
            /\ _find_answer(lines, i + 1) =
                  _find_answer(SubSeq(lines, 1, Min(i + 8, nextq)), i + 1)

\* C20 witness: extract has returned the pair of a 9-line text whose answer
\* is made of the 4 prose lines before the marker at i+5, the marked line
\* and the 2 lines after it; the prose line at i+8 is not part of it.
AnswerFillsWindow ==
    /\ Returned
    /\ Len(lines) = 9
    /\ At(lines, 5) = LineAy
    /\ At(lines, 8) = LineProse
    /\ flashcards =
          <<[question |-> <<"x">>,
             answer |-> <<"z", " ", "z", " ", "z", " ", "z", " ", "y", " ",
                          "z", " ", "z">>]>>

\* the elements of a set of line indices, in increasing order
RECURSIVE InOrder(_)
InOrder(S) ==
    IF S = {} THEN <<>>
    ELSE LET least == CHOOSE k \in S : \A j \in S : k <= j
         IN  <<least>> \o InOrder(S \ {least})
\* the lines the answer search for the question at q looks at: the lines of
\* q+1..q+5 in front of the first question line
Searched(ls, q) ==
    {k \in (q + 1)..Min(q + 5, Len(ls) - 1) :
        \A j \in (q + 1)..k : ~_is_question_line(strip(At(ls, j)))}
\* the answer-marker lines among them
Marked(ls, q) == {m \in Searched(ls, q) : _is_answer_line(strip(At(ls, m)))}
\* the non-empty lines met before an answer marker
BeforeMarker(ls, q) ==
    {k \in Searched(ls, q) :
        ~Blank(At(ls, k)) /\ \A m \in Marked(ls, q) : k < m}
\* the first answer-marker line, when text is left of it without the marker
MarkerText(ls, q) ==
    {m \in Marked(ls, q) :
        /\ \A n \in Marked(ls, q) : m <= n
        /\ _clean_answer_text(strip(At(ls, m))) # <<>>}
\* the continuation: of the 2 lines after the first marker, the prose lines
\* up to the first line that is not prose
Continuation(ls, q) ==
    {j \in 0..(Len(ls) - 1) :
        \E m \in Marked(ls, q) :
            /\ \A n \in Marked(ls, q) : m <= n
            /\ j \in (m + 1)..(m + 2)
            /\ \A h \in (m + 1)..j : Prose(At(ls, h))}
\* the answer made of these lines
AnswerOf(ls, q) ==
    LET from == InOrder(BeforeMarker(ls, q) \cup MarkerText(ls, q)
                            \cup Continuation(ls, q))
        text(k) == IF k \in MarkerText(ls, q)
                   THEN _clean_answer_text(strip(At(ls, k)))
                   ELSE strip(At(ls, k))
    IN  strip(join(<<" ">>, [p \in DOMAIN from |-> text(from[p])]))

PairsAreNonEmpty ==
    [][/\ \A n \in DOMAIN flashcards' :
              flashcards'[n].question # <<>> /\ flashcards'[n].answer # <<>>
       /\ Len(flashcards') > Len(flashcards) =>
              /\ AtQuestion
              /\ _clean_question_text(strip(At(lines, i))) # <<>>
              /\ _find_answer(lines, i + 1) # <<>>
       /\ (/\ AtQuestion
           /\ \/ _clean_question_text(strip(At(lines, i))) = <<>>
              \/ _find_answer(lines, i + 1) = <<>>)
             => flashcards' = flashcards /\ i' = i + 1]_vars

\* C22 witness: extract has returned one pair for a text of a bare `Q:` with
\* prose behind it, a question without an answer, and a question with its
\* answer: the first two question lines yielded nothing.
EmptyQuestionEmptyAnswer ==
    /\ Returned
    /\ lines = <<LineQBare, LineProse, LineQ1Dot, LineLowerQ, LineLowerA>>
    /\ flashcards = <<[question |-> <<"x">>, answer |-> <<"y">>]>>

\* an answer-marker line that is a question line as well
MarkedQuestion(l) ==
    _is_answer_line(strip(l)) /\ _is_question_line(strip(l))

\* C23: in the answer search the question test comes before the answer
\* test.  A line k that is both an answer-marker line and a question line
\* stops the answer search of a question in front of it: neither k nor a
\* line behind it contributes to that answer.  The scan does not step over
\* k, and at k it takes the line for a question: a pair emitted there has the
\* line's text as its question.
QuestionTestFirst ==
    [][\A k \in 0..(Len(lines) - 1) :
          MarkedQuestion(At(lines, k)) =>
              /\ (AtQuestion /\ i < k) =>
                     \A a \in AnswerLines(lines, i + 1) : a < k
              /\ i < k => i' <= k
              /\ (i = k /\ Len(flashcards') > Len(flashcards)) =>
                     flashcards'[Len(flashcards')].question =
                         _clean_question_text(strip(At(lines, k)))]_vars

\* C23 witness: extract has returned two pairs for the text `Q: x`, prose,
\* `A: v?`, prose: the answer of x is the prose in front of `A: v?`, and
\* `A: v?` is the question of the second pair.
MarkedQuestionAsked ==
    /\ Returned
    /\ lines = <<LineQx, LineProse, LineAv, LineProse>>
    /\ flashcards = <<[question |-> <<"x">>, answer |-> <<"z">>],
                      [question |-> LineAv, answer |-> <<"z">>]>>

\* a line ending in `?`, without its trailing whitespace and the `?`
WithoutMark(l) == SubSeq(rstrip(l), 1, Len(rstrip(l)) - 1)

\* C24 as stated: _is_answer_line is false for every line that ends, after
\* trimming trailing whitespace, in `?`, whatever its prefix.
AnswerLineNeverAsks ==
    \A k \in DOMAIN lines :
        EndsWithQuestionMark(lines[k]) => ~_is_answer_line(lines[k])

\* C24 amended: a trailing `?` has no influence on _is_answer_line: a line
\* that ends in `?` is an answer line exactly when the line without the `?`
\* is one, and it is a question line as well.
AnswerLineIgnoresEnding ==
    \A k \in DOMAIN lines :
        EndsWithQuestionMark(lines[k]) =>
            /\ _is_answer_line(lines[k])
                   <=> _is_answer_line(WithoutMark(lines[k]))
            /\ _is_question_line(lines[k])

\* C24 witness: extract has returned from a text whose last line `A: v?` is
\* an answer line; the line was taken for a question, and gave no answer to
\* the question in front of it.
AnswerLineAsks ==
    /\ Returned
    /\ lines = <<LineQx, LineAv>>
    /\ _is_answer_line(At(lines, 1))
    /\ flashcards = <<>>

\* the line begins with the marker, whatever the case of its letters
Begins(l, marker) == StartsWith(lower(l), lower(marker))

\* C25 as stated: a line that begins with `Q:` or `Q.` is a question line,
\* and a line that begins with `A:` or `A.` is an answer line, whatever the
\* case of the letter and whatever the end of the line.
BareMarkersColonOrDot ==
    \A k \in DOMAIN lines :
        /\ (Begins(lines[k], <<"Q", ":">>) \/ Begins(lines[k], <<"Q", ".">>))
              => _is_question_line(lines[k])
        /\ (Begins(lines[k], <<"A", ":">>) \/ Begins(lines[k], <<"A", ".">>))
              => _is_answer_line(lines[k])

\* C25 amended: the bare markers are accepted with a colon only.  A line
\* that begins with `Q:` is a question line and a line that begins with `A:`
\* is an answer line, whatever the case of the letter and the end of the
\* line; a line that begins with `A.` is not an answer line, and a line that
\* begins with `Q.` is a question line only when it ends in `?`; behind
\* digits the dot is accepted: `Q1.` begins a question line, `A1.` an answer
\* line.
BareMarkersColonOnly ==
    \A k \in DOMAIN lines :
        /\ Begins(lines[k], <<"Q", ":">>) => _is_question_line(lines[k])
        /\ Begins(lines[k], <<"A", ":">>) => _is_answer_line(lines[k])
        /\ Begins(lines[k], <<"A", ".">>) => ~_is_answer_line(lines[k])
        /\ Begins(lines[k], <<"Q", ".">>) =>
              (_is_question_line(lines[k]) <=> EndsWithQuestionMark(lines[k]))
        /\ Begins(lines[k], <<"Q", "1", ".">>) => _is_question_line(lines[k])
        /\ Begins(lines[k], <<"A", "1", ".">>) => _is_answer_line(lines[k])

\* C25 witness: extract has returned one pair for the text `Q. x`, `A. y`,
\* `q: x`, `a: y`: the lines with the dot were neither question nor answer.
DotFormsYieldNothing ==
    /\ Returned
    /\ lines = <<LineQDot, LineADot, LineLowerQ, LineLowerA>>
    /\ flashcards = <<[question |-> <<"x">>, answer |-> <<"y">>]>>

\* the pairs extract_flashcards returns for the lines ls, scanned from k on
RECURSIVE ScannerOutput(_, _, _)
ScannerOutput(ls, k, cards) ==
    IF k >= Len(ls) THEN cards
    ELSE ScannerOutput(ls, extract_flashcards_loop(ls, k, cards).i,
                       extract_flashcards_loop(ls, k, cards).flashcards)

\* C26: when the image decodes and OCR returns its lines, process_image
\* returns success = true with the recognized text, the lines joined by
\* newlines, with flashcards equal to the scanner's output for that text and
\* total_flashcards their count; success = false is returned only when the
\* image does not decode or OCR fails.
ProcessImageSucceedsWithOcr ==
    [][process_image =>
          LET image == image_data[1]
              text == join(<<"\n">>, image.ocr_results)
              ok == image.opens /\ image.reads
          IN  /\ result'[1].success <=> ok
              /\ ok => /\ result'[1].extracted_text = text
                       /\ result'[1].flashcards =
                              ScannerOutput(split(text), 0, <<>>)
                       /\ result'[1].total_flashcards =
                              Len(result'[1].flashcards)]_vars

\* an iteration moves the index forward, by one or, after a pair was
\* emitted, by a jump, and not past the end of the lines
ScanAdvances ==
    /\ i < Len(lines)
    /\ i' > i
    /\ i' <= Len(lines)
    /\ i' = i + 1 \/ Len(flashcards') = Len(flashcards) + 1
    /\ lines' = lines

\* C27: extract terminates on every text.  Every iteration of the loop is
\* taken at an index inside the lines and moves the index forward, by one,
\* or by a jump to an index of at least i + 1 after an emitted pair, and not
\* past the number of lines: the scan never goes backward, and the distance
\* to the end of the lines shrinks with every iteration, so there are at
\* most as many iterations as lines.
ScanTerminates == [][ScanAdvances]_vars

\* C27 witness: extract has returned two pairs for a text of 5 lines, after
\* a jump from the first question to the second.
ReturnedAfterJump ==
    /\ Returned
    /\ lines = <<LineQx, LineAy, LineBlank, LineQx, LineProse>>
    /\ Len(flashcards) = 2

\* the pairs emitted by the iterations from index k up to, not including,
\* index upto: for each the index of its question line and the indices of
\* the lines its answer is made of
RECURSIVE Emitted(_, _, _)
Emitted(ls, k, upto) ==
    IF k >= upto \/ k >= Len(ls) THEN <<>>
    ELSE LET next == extract_flashcards_loop(ls, k, <<>>)
         IN  (IF next.flashcards # <<>>
              THEN <<[at |-> k, from |-> AnswerLines(ls, k + 1)]>>
              ELSE <<>>) \o Emitted(ls, next.i, upto)

\* C28: emitted pairs never overlap.  The pairs are emitted in strictly
\* increasing order of the index of their question line; every line an
\* answer is made of lies strictly between the question line of its pair and
\* the question line of the next emitted pair (and in front of the scan
\* index); no line belongs to two pairs, as question or as answer text.
PairsNeverOverlap ==
    LET e == Emitted(lines, 0, i)
        of(n) == {e[n].at} \cup e[n].from
    IN  /\ Len(e) = Len(flashcards)
        /\ \A n \in DOMAIN e :
              /\ n < Len(e) => e[n].at < e[n + 1].at
              /\ \A a \in e[n].from :
                    /\ e[n].at < a
                    /\ a < i
                    /\ n < Len(e) => a < e[n + 1].at
        /\ \A m, n \in DOMAIN e : m # n => of(m) \cap of(n) = {}

\* C28 witness: extract has returned two pairs for a text of 5 lines: lines
\* 1 and 2 are the answer of the question at line 0, line 4 is the answer of
\* the question at line 3.
TwoPairsApart ==
    /\ Returned
    /\ lines = <<LineQx, LineAy, LineProse, LineQx, LineProse>>
    /\ flashcards = <<[question |-> <<"x">>, answer |-> <<"y", " ", "z">>],
                      [question |-> <<"x">>, answer |-> <<"z">>]>>

\* the flashcards at the step differ at most in the deck field of those
\* filed under name
OnlyDeckOf(name) ==
    /\ DOMAIN FLASHCARDS' = DOMAIN FLASHCARDS
    /\ \A k \in DOMAIN FLASHCARDS :
          /\ FLASHCARDS[k].deck # name =>
                FLASHCARDS'[k].deck = FLASHCARDS[k].deck
          /\ FLASHCARDS'[k].id = FLASHCARDS[k].id
          /\ FLASHCARDS'[k].question = FLASHCARDS[k].question
          /\ FLASHCARDS'[k].answer = FLASHCARDS[k].answer
          /\ FLASHCARDS'[k].tags = FLASHCARDS[k].tags
          /\ FLASHCARDS'[k].assessment = FLASHCARDS[k].assessment

\* C29: a successful rename(old, new) or delete(name) changes the deck
\* field only of flashcards whose deck field was old (resp. name); the deck
\* field of every other flashcard, and the question, answer, tags and
\* assessment of every flashcard, are unchanged; rename keeps the id of the
\* renamed deck and the number of decks.
RenameDeleteFrame ==
    [][/\ \A o \in PathNames, n \in NamePayloads :
              (api_rename_deck(o, n) /\ resp'.status = 200) =>
                  /\ OnlyDeckOf(o)
                  /\ DECKS'[strip(n)].id = DECKS[o].id
                  /\ Cardinality(DOMAIN DECKS') = Cardinality(DOMAIN DECKS)
       /\ \A n \in PathNames :
              (api_delete_deck(n) /\ resp'.status = 200) => OnlyDeckOf(n)
      ]_vars

\* C29 witness: a rename has just moved one flashcard, and the store holds
\* another one, tagged, scored and filed under another deck.
RenamedBesideOther ==
    /\ resp.op = "rename"
    /\ resp.status = 200
    /\ resp.n = 1
    /\ Len(FLASHCARDS) = 2
    /\ FLASHCARDS[1].deck = DefaultName
    /\ FLASHCARDS[1].tags # <<>>
    /\ FLASHCARDS[1].assessment.history # <<>>
    /\ FLASHCARDS[2].deck = NameB
    /\ DOMAIN DECKS = {DefaultName, NameB}
    /\ DECKS[NameB].id = 2

\* ids of the flashcards search(deck=name) returns from the store F
InDeck(F, name) == ResultIds(search_flashcards(F, None, name, None, None))

\* C30 as stated: immediately after a successful create(name),
\* search(deck=name) is empty, and immediately after a successful
\* rename(old, new), search(deck=new) returns exactly the flashcards that
\* search(deck=old) returned just before.
NewDeckHoldsNothing ==
    [][/\ \A n \in NamePayloads :
              (api_create_deck(n) /\ resp'.status = 200) =>
                  search_flashcards(FLASHCARDS', None, strip(n), None, None)
                      = <<>>
       /\ \A o \in PathNames, n \in NamePayloads :
              (api_rename_deck(o, n) /\ resp'.status = 200) =>
                  InDeck(FLASHCARDS', strip(n)) = InDeck(FLASHCARDS, o)
      ]_vars

\* C30 amended: a deck that comes into existence under a name holds the
\* flashcards that referenced the name already.  Immediately after a
\* successful create(name), search(deck=name) returns what it returned just
\* before; immediately after a successful rename(old, new), search(deck=new)
\* returns the flashcards search(deck=old) returned just before together
\* with those search(deck=new) returned just before.
NewDeckHoldsItsReferences ==
    [][/\ \A n \in NamePayloads :
              (api_create_deck(n) /\ resp'.status = 200) =>
                  search_flashcards(FLASHCARDS', None, strip(n), None, None)
                      = search_flashcards(FLASHCARDS, None, strip(n),
                                          None, None)
       /\ \A o \in PathNames, n \in NamePayloads :
              (api_rename_deck(o, n) /\ resp'.status = 200) =>
                  InDeck(FLASHCARDS', strip(n)) =
                      InDeck(FLASHCARDS, o) \cup InDeck(FLASHCARDS, strip(n))
      ]_vars

\* C30 witness: a rename has just moved one flashcard into a deck whose
\* name another flashcard referenced already: the new deck holds both.
RenamedOntoReference ==
    /\ resp.op = "rename"
    /\ resp.status = 200
    /\ resp.n = 1
    /\ NameB \in DOMAIN DECKS
    /\ NameA \notin DOMAIN DECKS
    /\ DECKS[NameB].id = 2
    /\ Len(FLASHCARDS) = 2
    /\ InDeck(FLASHCARDS, NameB) = {1, 2}

====
